---- MODULE Spec2Model ----
(***************************************************************************)
(* Text Improver Pro: the double-Shift gesture, the hotkey capture, the    *)
(* action buttons with their background workers, the clipboard monitor's   *)
(* callback and the classification of completion errors.                   *)
(*                                                                         *)
(* Texts are sequences of one-character strings, so that str.strip(),      *)
(* str.lower() and the `in` substring test are computed, not assumed.  A   *)
(* fixed message of the program is one element holding the whole message.  *)
(***************************************************************************)
EXTENDS Integers, Sequences, FiniteSets, Bags, TLC

VARIABLES
    \* --- services/text_processor.py
    err_in,     \* _handle_api_error: str(error), the text being classified
    err_out,    \* _handle_api_error: the message returned (<<>> before the call)
    \* --- the keyboard library's event thread (it runs the key hooks one at a time)
    now,                \* time.time() * 1000
    keyQueue,           \* key-press events delivered by the OS, not yet handled
    _last_shift_time,   \* TextImproverApp._last_shift_time
    hk_pc,              \* position of the event thread inside _on_hotkey_pressed
    hk_text,            \* _on_hotkey_pressed: clipboard_content
    hk_viewable,        \* _on_hotkey_pressed: what root.winfo_viewable() returned
    processing_selection,
    \* --- the system clipboard
    clipboard,
    \* --- TextImproverApp: the widgets and the captured text
    selected_text,
    selected_text_display,  \* content of the input area
    visible,                \* root.winfo_viewable()
    result_frame,           \* TRUE when the result area is packed (shown)
    result_display,         \* content of the result area
    improve_button,         \* state of the Improve button
    interview_button,       \* state of the Answer Interview Question button
    \* --- background workers and the UI loop
    workers,    \* threads started by improve_text / answer_interview_question;
                \* sess and at are history: the capture whose text the worker
                \* read, and the captured text when the action was triggered
    afterQueue, \* callbacks scheduled with root.after, not yet run; sess, req and
                \* out are history: the capture and the text the result answers,
                \* and what the service did with the call
    \* --- services/clipboard_monitor.py
    last_clipboard_content,
    ctrl_c_pressed,
    cb_pc,      \* position of the polling threads and of the Ctrl+C timer thread
                \* ("none": no such thread is alive)
    cb_text,    \* their current_clipboard
    running,    \* ClipboardMonitor.running
    thread,     \* ClipboardMonitor.thread: a polling thread, or "None"
    key_hooks,  \* number of hooks registered with keyboard.on_press_key("c", ...)
    stop_pc,    \* "joining" while a caller of stop() is inside thread.join
    \* --- the clipboard as the program reaches it through pyperclip
    clip_locked,    \* TRUE while pyperclip.paste() and pyperclip.copy() raise
    copy_pc,        \* "writing" while copy_to_clipboard is inside pyperclip.copy
    copy_text,      \* copy_to_clipboard: improved_text
    get_out,        \* what the last get_clipboard_content() call gave its caller
    set_out,        \* what the last set_clipboard_content(text) call gave its caller
    set_call,       \* the set_clipboard_content(text) call under way: pc is
                    \* "writing" between its two statements; text is its argument
    \* --- history, read by the properties only
    hk_raised,      \* an exception has left _on_hotkey_pressed
    copy_raised,    \* an exception has left copy_to_clipboard
    read_in_write,  \* a capture has read the clipboard while copy_pc = "writing"
    pressLog,   \* the Shift presses handled: time, whether the gesture fired
    copies,     \* number of keyboard.send('ctrl+c')
    session,    \* number of captures accepted so far
    sent,       \* the texts given to the completion service, per action
    delivered,  \* the results given to _update_result / _update_interview_result
    ignored,    \* number of clicks a disabled action button ignored
    events      \* number of user and environment events so far

errVars == <<err_in, err_out>>
clipVars ==
    <<clip_locked, copy_pc, copy_text, get_out, set_out, set_call, hk_raised,
      copy_raised, read_in_write>>
keyVars == <<now, keyQueue, _last_shift_time, pressLog>>
hkVars == <<hk_pc, hk_text, hk_viewable, processing_selection, copies>>
inputVars == <<selected_text, selected_text_display>>
resultVars == <<result_display, improve_button, interview_button, ignored>>
workVars == <<workers, afterQueue, sent, delivered>>
lifeVars == <<running, thread, key_hooks, stop_pc>>
monVars == <<last_clipboard_content, ctrl_c_pressed, cb_pc, cb_text, lifeVars>>
vars ==
    <<errVars, clipVars, keyVars, hkVars, clipboard, inputVars, visible, result_frame,
      resultVars, workVars, monVars, session, events>>

(***************************************************************************)
(* Strings                                                                 *)
(***************************************************************************)
UpperAlpha ==
    <<"A","B","C","D","E","F","G","H","I","J","K","L","M",
      "N","O","P","Q","R","S","T","U","V","W","X","Y","Z">>

LowerAlpha ==
    <<"a","b","c","d","e","f","g","h","i","j","k","l","m",
      "n","o","p","q","r","s","t","u","v","w","x","y","z">>

\* str.lower() on one character
LowerChar(c) ==
    IF \E i \in 1..Len(UpperAlpha) : UpperAlpha[i] = c
    THEN LowerAlpha[CHOOSE i \in 1..Len(UpperAlpha) : UpperAlpha[i] = c]
    ELSE c

\* str.lower()
Lower(s) == [i \in 1..Len(s) |-> LowerChar(s[i])]

\* `sub in s`
Contains(s, sub) ==
    \E i \in 1..(Len(s) - Len(sub) + 1) : SubSeq(s, i, i + Len(sub) - 1) = sub

(***************************************************************************)
(* services/text_processor.py: _handle_api_error                           *)
(***************************************************************************)
KwRateLimit == <<"r","a","t","e"," ","l","i","m","i","t">>
KwAuthentication == <<"a","u","t","h","e","n","t","i","c","a","t","i","o","n">>
KwApiKey == <<"a","p","i"," ","k","e","y">>
KwTimeout == <<"t","i","m","e","o","u","t">>
KwTimedOut == <<"t","i","m","e","d"," ","o","u","t">>
KwConnection == <<"c","o","n","n","e","c","t","i","o","n">>

MsgRateLimit == <<"Error: Rate limit exceeded. Please try again in a moment.">>
MsgAuth == <<"Error: Authentication failed. Please check your API key.">>
MsgTimeout == <<"Error: Request timed out. The server might be busy, please try again.">>
MsgConnection == <<"Error: Connection issue. Please check your internet connection.">>
MsgPrefix == <<"Error: ">>

\* the text the classification looks at: error_str.lower()
ErrorKey(error_str) == Lower(error_str)

HandleFirstRuleLast(error_str) ==
    IF Contains(ErrorKey(error_str), KwAuthentication)
       \/ Contains(ErrorKey(error_str), KwApiKey) THEN MsgAuth
    ELSE IF Contains(ErrorKey(error_str), KwTimeout)
       \/ Contains(ErrorKey(error_str), KwTimedOut) THEN MsgTimeout
    ELSE IF Contains(ErrorKey(error_str), KwConnection) THEN MsgConnection
    ELSE IF Contains(ErrorKey(error_str), KwRateLimit) THEN MsgRateLimit
    ELSE MsgPrefix \o error_str

_handle_api_error(error_str) ==
    IF Contains(ErrorKey(error_str), KwRateLimit) THEN MsgRateLimit
    ELSE IF Contains(ErrorKey(error_str), KwAuthentication)
       \/ Contains(ErrorKey(error_str), KwApiKey) THEN MsgAuth
    ELSE IF Contains(ErrorKey(error_str), KwTimeout)
       \/ Contains(ErrorKey(error_str), KwTimedOut) THEN MsgTimeout
    ELSE IF Contains(ErrorKey(error_str), KwConnection) THEN MsgConnection
    ELSE MsgPrefix \o error_str

\* The pieces the error texts are put together from.
ErrFragments ==
    {<<"R","a","t","e"," ","L","i","m","i","t">>,
     <<"R","A","T","E">>,
     <<"l","i","m","i","t">>,
     <<" ">>,
     <<"A","u","t","h","e","n","t","i","c","a","t","i","o","n">>,
     <<"A","P","I"," ","k","e","y">>,
     <<"T","i","m","e","o","u","t">>,
     <<"t","i","m","e","d"," ","o","u","t">>,
     <<"C","o","n","n","e","c","t","i","o","n">>,
     <<"x">>}

\* An error text is at most MaxErrParts fragments, one after the other.
MaxErrParts == 3

RECURSIVE Concat(_)
Concat(parts) ==
    IF parts = <<>> THEN <<>> ELSE Head(parts) \o Concat(Tail(parts))

ErrorTexts ==
    {Concat(parts) : parts \in UNION {[1..n -> ErrFragments] : n \in 0..MaxErrParts}}

\* except Exception as e: return _handle_api_error(e)
HandleApiError ==
    /\ err_out = <<>>
    /\ err_out' = _handle_api_error(err_in)
    /\ UNCHANGED err_in

(***************************************************************************)
(* Texts of the clipboard and of the widgets                               *)
(***************************************************************************)
Whitespace == {" ", "\t", "\n"}

RECURSIVE LStrip(_)
LStrip(s) ==
    IF s # <<>> /\ Head(s) \in Whitespace THEN LStrip(Tail(s)) ELSE s

RECURSIVE RStrip(_)
RStrip(s) ==
    IF s # <<>> /\ s[Len(s)] \in Whitespace
    THEN RStrip(SubSeq(s, 1, Len(s) - 1)) ELSE s

StripLeftOnly(s) == LStrip(s)

\* str.strip()
strip(s) == RStrip(LStrip(s))

\* What the clipboard may hold: nothing, blanks only, a padded text, a plain text.
ClipboardTexts == {<<>>, <<" ">>, <<" ", "a", " ">>, <<"b">>}

Placeholder == <<"No text was copied. Please select text and try again.">>

(***************************************************************************)
(* ui/app.py: _on_hotkey_pressed and process_selected_text, on the thread  *)
(* that delivers the key events.  Each step is one access to state that    *)
(* another thread can read or write.                                       *)
(***************************************************************************)
SettleMs == 600

\* keyboard.send('ctrl+c')
HotkeySend ==
    /\ hk_pc' = "sleep"
    /\ copies' = copies + 1
    /\ UNCHANGED <<hk_text, hk_viewable, processing_selection>>

\* if clipboard_content.strip(): process_selected_text(...) else: the placeholder
HotkeyBranch(text) == IF strip(text) # <<>> THEN "pst_enter" ELSE "ph_check"

\* history: a capture path reads the clipboard
NoteRead ==
    read_in_write' = (read_in_write \/ copy_pc = "writing")

\* time.sleep(0.6); clipboard_content = pyperclip.paste(): with the clipboard
\* locked paste() raises, and nothing in _on_hotkey_pressed catches it
HotkeyRead ==
    /\ hk_pc = "sleep"
    /\ now' = now + SettleMs
    /\ NoteRead
    /\ IF clip_locked
       THEN /\ hk_raised' = TRUE
            /\ hk_pc' = "idle"
            /\ UNCHANGED hk_text
       ELSE /\ hk_text' = clipboard
            /\ hk_pc' = HotkeyBranch(clipboard)
            /\ UNCHANGED hk_raised
    /\ UNCHANGED <<keyQueue, _last_shift_time, pressLog, hk_viewable,
                   processing_selection, copies>>
    /\ UNCHANGED <<clip_locked, copy_pc, copy_text, get_out, set_out, set_call,
                   copy_raised>>
    /\ UNCHANGED <<errVars, clipboard, inputVars, visible, result_frame,
                   resultVars, workVars, monVars, session, events>>

\* process_selected_text: if not self.processing_selection: ... = True;
\* self.selected_text = text.strip()
ProcessEnter ==
    /\ hk_pc = "pst_enter"
    /\ IF processing_selection
       THEN /\ hk_pc' = "idle"
            /\ UNCHANGED <<processing_selection, selected_text, session>>
       ELSE /\ processing_selection' = TRUE
            /\ selected_text' = strip(hk_text)
            /\ session' = session + 1
            /\ hk_pc' = "pst_delete"
    /\ UNCHANGED <<hk_text, hk_viewable, copies, selected_text_display>>
    /\ UNCHANGED <<errVars, clipVars, keyVars, clipboard, visible, result_frame,
                   resultVars, workVars, monVars, events>>

\* if self.selected_text: self.selected_text_display.delete("1.0", "end")
ProcessDelete ==
    /\ hk_pc = "pst_delete"
    /\ IF selected_text # <<>>
       THEN selected_text_display' = <<>> /\ hk_pc' = "pst_insert"
       ELSE UNCHANGED selected_text_display /\ hk_pc' = "pst_finally"
    /\ UNCHANGED <<hk_text, hk_viewable, processing_selection, copies, selected_text>>
    /\ UNCHANGED <<errVars, clipVars, keyVars, clipboard, visible, result_frame,
                   resultVars, workVars, monVars, session, events>>

\* self.selected_text_display.insert("end", self.selected_text)
ProcessInsert ==
    /\ hk_pc = "pst_insert"
    /\ selected_text_display' = selected_text_display \o selected_text
    /\ hk_pc' = "pst_viewable"
    /\ UNCHANGED <<hk_text, hk_viewable, processing_selection, copies, selected_text>>
    /\ UNCHANGED <<errVars, clipVars, keyVars, clipboard, visible, result_frame,
                   resultVars, workVars, monVars, session, events>>

\* if not self.root.winfo_viewable():
ProcessViewable ==
    /\ hk_pc = "pst_viewable"
    /\ hk_viewable' = visible
    /\ hk_pc' = "pst_show"
    /\ UNCHANGED <<hk_text, processing_selection, copies>>
    /\ UNCHANGED <<errVars, clipVars, keyVars, clipboard, inputVars, visible, result_frame,
                   resultVars, workVars, monVars, session, events>>

\* show_window_at_cursor() maps a hidden window; lift() and focus_force()
\* leave a window as it is, mapped or withdrawn
ShowOrLift(wasViewable) == IF wasViewable THEN visible ELSE TRUE

\* self.show_window_at_cursor()  /  self.root.lift() ... focus_force()
ProcessShow ==
    /\ hk_pc = "pst_show"
    /\ visible' = ShowOrLift(hk_viewable)
    /\ hk_pc' = "pst_forget"
    /\ UNCHANGED <<hk_text, hk_viewable, processing_selection, copies>>
    /\ UNCHANGED <<errVars, clipVars, keyVars, clipboard, inputVars, result_frame,
                   resultVars, workVars, monVars, session, events>>

ProcessForgetKeepsResult ==
    /\ hk_pc = "pst_forget"
    /\ hk_pc' = "pst_finally"
    /\ UNCHANGED <<hk_text, hk_viewable, processing_selection, copies>>
    /\ UNCHANGED <<errVars, clipVars, keyVars, clipboard, inputVars, visible, result_frame,
                   resultVars, workVars, monVars, session, events>>

\* self.result_frame.pack_forget()
ProcessForget ==
    /\ hk_pc = "pst_forget"
    /\ result_frame' = FALSE
    /\ hk_pc' = "pst_finally"
    /\ UNCHANGED <<hk_text, hk_viewable, processing_selection, copies>>
    /\ UNCHANGED <<errVars, clipVars, keyVars, clipboard, inputVars, visible,
                   resultVars, workVars, monVars, session, events>>

\* finally: self.processing_selection = False, and the handler returns
ProcessFinally ==
    /\ hk_pc = "pst_finally"
    /\ processing_selection' = FALSE
    /\ hk_pc' = "idle"
    /\ UNCHANGED <<hk_text, hk_viewable, copies>>
    /\ UNCHANGED <<errVars, clipVars, keyVars, clipboard, inputVars, visible, result_frame,
                   resultVars, workVars, monVars, session, events>>

\* else: if not self.root.winfo_viewable():
PlaceholderViewable ==
    /\ hk_pc = "ph_check"
    /\ hk_viewable' = visible
    /\ hk_pc' = "ph_delete"
    /\ UNCHANGED <<hk_text, processing_selection, copies>>
    /\ UNCHANGED <<errVars, clipVars, keyVars, clipboard, inputVars, visible, result_frame,
                   resultVars, workVars, monVars, session, events>>

\* self.selected_text_display.delete("1.0", "end")   (both branches)
PlaceholderDelete ==
    /\ hk_pc = "ph_delete"
    /\ selected_text_display' = <<>>
    /\ hk_pc' = "ph_insert"
    /\ UNCHANGED <<hk_text, hk_viewable, processing_selection, copies, selected_text>>
    /\ UNCHANGED <<errVars, clipVars, keyVars, clipboard, visible, result_frame,
                   resultVars, workVars, monVars, session, events>>

\* self.selected_text_display.insert("end", "No text was copied. ...")
PlaceholderInsert ==
    /\ hk_pc = "ph_insert"
    /\ selected_text_display' = selected_text_display \o Placeholder
    /\ hk_pc' = "ph_show"
    /\ UNCHANGED <<hk_text, hk_viewable, processing_selection, copies, selected_text>>
    /\ UNCHANGED <<errVars, clipVars, keyVars, clipboard, visible, result_frame,
                   resultVars, workVars, monVars, session, events>>

PlaceholderShowHidesResult ==
    /\ hk_pc = "ph_show"
    /\ visible' = ShowOrLift(hk_viewable)
    /\ result_frame' = FALSE
    /\ hk_pc' = "idle"
    /\ UNCHANGED <<hk_text, hk_viewable, processing_selection, copies>>
    /\ UNCHANGED <<errVars, clipVars, keyVars, clipboard, inputVars,
                   resultVars, workVars, monVars, session, events>>

\* self.show_window_at_cursor()  /  self.root.lift(); self.root.focus_force()
PlaceholderShow ==
    /\ hk_pc = "ph_show"
    /\ visible' = ShowOrLift(hk_viewable)
    /\ hk_pc' = "idle"
    /\ UNCHANGED <<hk_text, hk_viewable, processing_selection, copies>>
    /\ UNCHANGED <<errVars, clipVars, keyVars, clipboard, inputVars, result_frame,
                   resultVars, workVars, monVars, session, events>>

(***************************************************************************)
(* ui/app.py: _handle_shift_double_press.  keyboard.on_press hands every   *)
(* key press to it on the event thread, one press at a time: a press that  *)
(* arrives while the thread is inside a handler waits in keyQueue.         *)
(***************************************************************************)
_shift_interval_ms == 400

\* The clock starts at StartMs (time.time() * 1000 is far above the interval),
\* moves in steps of TickMs and the environment stops moving it at MaxTime.
StartMs == 1000
TickMs == 100
MaxTime == 2000
\* At most MaxKeys key presses arrive.
MaxKeys == 4

KeyNames == {"shift", "a"}

IsDoublePressInclusive(t, last) == t - last <= _shift_interval_ms

\* now - self._last_shift_time < self._shift_interval_ms
IsDoublePress(t, last) == t - last < _shift_interval_ms

KeepPressTime(t) == t

\* self._last_shift_time = 0
LastShiftAfterGesture(t) == 0

\* The OS delivers a key press.
KeyArrive(name) ==
    /\ events < MaxKeys
    /\ events' = events + 1
    /\ keyQueue' = Append(keyQueue, [name |-> name, during |-> hk_pc # "idle"])
    /\ UNCHANGED <<now, _last_shift_time, pressLog>>
    /\ UNCHANGED <<errVars, clipVars, hkVars, clipboard, inputVars, visible, result_frame,
                   resultVars, workVars, monVars, session>>

\* Time passes.
Tick ==
    /\ now + TickMs <= MaxTime
    /\ now' = now + TickMs
    /\ UNCHANGED <<keyQueue, _last_shift_time, pressLog>>
    /\ UNCHANGED <<errVars, clipVars, hkVars, clipboard, inputVars, visible, result_frame,
                   resultVars, workVars, monVars, session, events>>

\* _handle_shift_double_press(event), up to and including keyboard.send('ctrl+c')
\* when the gesture fires; the rest of _on_hotkey_pressed follows in HotkeyRead...
HandleKey ==
    /\ hk_pc = "idle"
    /\ keyQueue # <<>>
    /\ keyQueue' = Tail(keyQueue)
    /\ IF Head(keyQueue).name = "shift"
       THEN IF IsDoublePress(now, _last_shift_time)
            THEN /\ _last_shift_time' = LastShiftAfterGesture(now)
                 /\ pressLog' = Append(pressLog,
                        [t |-> now, fired |-> TRUE, during |-> Head(keyQueue).during])
                 /\ HotkeySend
            ELSE /\ _last_shift_time' = now
                 /\ pressLog' = Append(pressLog,
                        [t |-> now, fired |-> FALSE, during |-> Head(keyQueue).during])
                 /\ UNCHANGED hkVars
       ELSE UNCHANGED <<_last_shift_time, pressLog, hkVars>>
    /\ UNCHANGED now
    /\ UNCHANGED <<errVars, clipVars, clipboard, inputVars, visible, result_frame,
                   resultVars, workVars, monVars, session, events>>

(***************************************************************************)
(* ui/app.py: the action buttons.  Their handlers, and everything that     *)
(* root.after schedules, run on the UI loop, one callback at a time.       *)
(***************************************************************************)
\* At most MaxEvents user and environment events happen in a run of Spec.
MaxEvents == 4

Actions == {"improve", "interview"}

BusyText(kind) ==
    IF kind = "improve" THEN <<"Improving your text...">>
    ELSE <<"Generating interview answer...">>

\* A CTkButton calls its command unless its state is "disabled".
ButtonInvokes(state) == state # "disabled"

ButtonOf(kind) == IF kind = "improve" THEN improve_button ELSE interview_button

KeepButtonEnabled(kind) == "normal"

\* self.improve_button.configure(state="disabled", ...)
\* self.interview_button.configure(state="disabled", ...)
PendingState(kind) == "disabled"

\* the threads of the program: the Tk main loop, the keyboard library's
\* listener (it runs the hooks registered with keyboard.on_press), and the
\* threads made with threading.Thread
UiLoop == "ui"
HookThread == "keys"

CallOnUiLoop(kind) ==
    workers' = workers (+) SetToBag({[kind |-> kind, pc |-> "start", text |-> <<>>,
                                      sess |-> 0, thread |-> UiLoop,
                                      at |-> selected_text]})

\* threading.Thread(target=self._perform_improvement).start(): the target runs
\* on a thread of its own (at is history: the captured text at the trigger)
StartWorker(kind) ==
    workers' = workers (+) SetToBag({[kind |-> kind, pc |-> "start", text |-> <<>>,
                                      sess |-> 0, thread |-> "worker",
                                      at |-> selected_text]})

\* improve_text(self), the command of the Improve button
improve_text ==
    /\ result_frame' = TRUE
    /\ result_display' = BusyText("improve")
    /\ improve_button' = PendingState("improve")
    /\ StartWorker("improve")
    /\ UNCHANGED <<interview_button, ignored>>

\* answer_interview_question(self), the command of the Answer button
answer_interview_question ==
    /\ interview_button' = PendingState("interview")
    /\ result_frame' = TRUE
    /\ result_display' = BusyText("interview")
    /\ StartWorker("interview")
    /\ UNCHANGED <<improve_button, ignored>>

\* The user clicks an action button of the visible window.
Click(kind) ==
    /\ visible
    /\ copy_pc = "idle"
    /\ events < MaxEvents
    /\ events' = events + 1
    /\ IF ButtonInvokes(ButtonOf(kind))
       THEN IF kind = "improve" THEN improve_text ELSE answer_interview_question
       ELSE /\ ignored' = ignored + 1
            /\ UNCHANGED <<result_frame, result_display, improve_button,
                           interview_button, workers>>
    /\ UNCHANGED <<afterQueue, sent, delivered>>
    /\ UNCHANGED <<errVars, clipVars, keyVars, hkVars, clipboard, inputVars, visible,
                   monVars, session>>

\* hide_window(self), the command of the close button
hide_window ==
    /\ visible
    /\ copy_pc = "idle"
    /\ events < MaxEvents
    /\ events' = events + 1
    /\ visible' = FALSE
    /\ UNCHANGED <<errVars, clipVars, keyVars, hkVars, clipboard, inputVars, result_frame,
                   resultVars, workVars, monVars, session>>

(***************************************************************************)
(* The background workers: _perform_improvement, _perform_interview_answer *)
(* with services/text_processor.py improve_text, answer_interview_question *)
(***************************************************************************)
\* What the completion service answers: a text that names its request.
Complete(kind, text) ==
    IF kind = "improve" THEN <<"improved:">> \o text ELSE <<"answer:">> \o text

\* The error texts the completion service fails with.
ServiceErrors == {<<"R","a","t","e"," ","L","i","m","i","t">>}

\* What the completion service does with a call: it returns a text, it
\* returns a response without content (OpenRouter), or the call raises.
Outcomes(w) ==
    {[type |-> "text", value |-> Complete(w.kind, w.text)]}
       \cup {[type |-> "raise", value |-> e] : e \in ServiceErrors}

MsgExtract == <<"Error processing response from API.">>

CallWithoutCatch(outcome) ==
    [raised |-> outcome.type # "text", value |-> outcome.value]

\* text_processor.improve_text / answer_interview_question: the text of the
\* response; _extract_content_from_response's message when the response has
\* no content; except Exception as e: return _handle_api_error(e)
text_processor_call(outcome) ==
    [raised |-> FALSE,
     value |-> IF outcome.type = "text" THEN outcome.value
               ELSE IF outcome.type = "malformed" THEN MsgExtract
               ELSE _handle_api_error(outcome.value)]

\* _perform_improvement / _perform_interview_answer: the text they schedule,
\* in the try branch and in `except Exception as e: f"Error: {str(e)}"`
Reply(outcome) ==
    LET r == text_processor_call(outcome)
    IN  IF r.raised THEN MsgPrefix \o r.value ELSE r.value

\* text_to_improve = self.selected_text  /  question = self.selected_text
WorkerRead(w) ==
    /\ BagIn(w, workers)
    /\ w.pc = "start"
    /\ workers' = (workers (-) SetToBag({w}))
                    (+) SetToBag({[w EXCEPT !.pc = "call", !.text = selected_text,
                                          !.sess = session]})
    /\ UNCHANGED <<afterQueue, sent, delivered>>
    /\ UNCHANGED <<errVars, clipVars, keyVars, hkVars, clipboard, inputVars, visible,
                   result_frame, resultVars, monVars, session, events>>

RetryOnError(w, reply) ==
    IF reply = Complete(w.kind, w.text) THEN workers (-) SetToBag({w}) ELSE workers

\* the worker threads once w has made its call: _perform_improvement makes one
\* call, schedules the update and returns, whatever the call gave
WorkersAfterCall(w, reply) == workers (-) SetToBag({w})

\* improved_text = improve_text(text_to_improve): the reply, or the message of
\* _handle_api_error when the call raises;
\* self.root.after(0, lambda: self._update_result(improved_text))
WorkerCall(w, outcome) ==
    /\ BagIn(w, workers)
    /\ w.pc = "call"
    /\ workers' = WorkersAfterCall(w, Reply(outcome))
    /\ sent' = Append(sent, [kind |-> w.kind, text |-> w.text])
    /\ afterQueue' = afterQueue
          (+) SetToBag({[fn |-> w.kind, text |-> Reply(outcome), index |-> 0,
                          sess |-> w.sess, req |-> w.text, out |-> outcome]})
    /\ UNCHANGED delivered
    /\ UNCHANGED <<errVars, clipVars, keyVars, hkVars, clipboard, inputVars, visible,
                   result_frame, resultVars, monVars, session, events>>

Replies(w) == {Reply(outcome) : outcome \in Outcomes(w)}

\* typewriter(text, index): insert text[index] and schedule index + 1
Typewriter(cb) ==
    IF cb.index < Len(cb.text)
    THEN /\ result_display' = Append(result_display, cb.text[cb.index + 1])
         /\ afterQueue' = (afterQueue (-) SetToBag({cb}))
               (+) SetToBag({[cb EXCEPT !.fn = "typewriter", !.index = cb.index + 1]})
    ELSE /\ UNCHANGED result_display
         /\ afterQueue' = afterQueue (-) SetToBag({cb})

\* _update_result(result_text) / _update_interview_result(result_text):
\* delete, re-enable the button, typewriter(result_text)
UpdateResult(cb) ==
    /\ delivered' = Append(delivered, [kind |-> cb.fn, text |-> cb.text])
    /\ IF cb.fn = "improve"
       THEN improve_button' = "normal" /\ UNCHANGED interview_button
       ELSE interview_button' = "normal" /\ UNCHANGED improve_button
    /\ IF 0 < Len(cb.text)
       THEN /\ result_display' = <<cb.text[1]>>
            /\ afterQueue' = (afterQueue (-) SetToBag({cb}))
                  (+) SetToBag({[cb EXCEPT !.fn = "typewriter", !.index = 1]})
       ELSE /\ result_display' = <<>>
            /\ afterQueue' = afterQueue (-) SetToBag({cb})

\* The UI loop runs one scheduled callback.
RunAfter(cb) ==
    /\ BagIn(cb, afterQueue)
    /\ copy_pc = "idle"
    /\ IF cb.fn = "typewriter"
       THEN Typewriter(cb) /\ UNCHANGED <<improve_button, interview_button, delivered>>
       ELSE UpdateResult(cb)
    /\ UNCHANGED ignored
    /\ UNCHANGED <<workers, sent>>
    /\ UNCHANGED <<errVars, clipVars, keyVars, hkVars, clipboard, inputVars, visible,
                   result_frame, monVars, session, events>>

(***************************************************************************)
(* services/clipboard_monitor.py: the polling thread "mon" and the Ctrl+C  *)
(* timer thread "tmr".  Both call the callback, _handle_clipboard_update,  *)
(* on their own thread.                                                    *)
(***************************************************************************)
max_text_length == 10000

\* A long run of characters is one element of a text: LongRun stands for
\* max_text_length - 1 letters.
LongRun == "x*9999"

CharLen(c) == IF c = LongRun THEN max_text_length - 1 ELSE 1

\* len(text)
RECURSIVE TextLen(_)
TextLen(s) == IF s = <<>> THEN 0 ELSE CharLen(Head(s)) + TextLen(Tail(s))

CallbackThreads == {"mon", "tmr"}

\* the threads that start() can make: the one made in TextImproverApp.__init__
\* and one more
PollThreads == {"mon", "mon2"}

\* where a thread goes once its callback has returned: a polling thread back
\* to its loop, and the timer thread ends
AfterCallback(t) == IF t = "tmr" THEN "none" ELSE "poll"

otherVarsOfCallback ==
    <<errVars, keyVars, hkVars, clipboard, visible, resultVars, workVars, lifeVars,
      events>>

\* what a monitor step leaves alone of the clipboard access variables
clipVarsOfMonitor ==
    <<clip_locked, copy_pc, copy_text, get_out, set_out, set_call, hk_raised,
      copy_raised>>

\* _monitor: self.last_clipboard_content = pyperclip.paste()
\* except Exception: self.last_clipboard_content = ""
MonitorBaseline(t) ==
    /\ cb_pc[t] = "init"
    /\ last_clipboard_content' = (IF clip_locked THEN <<>> ELSE clipboard)
    /\ cb_pc' = [cb_pc EXCEPT ![t] = "poll"]
    /\ UNCHANGED <<ctrl_c_pressed, cb_text, inputVars, result_frame, session>>
    /\ UNCHANGED <<clipVarsOfMonitor, read_in_write>>
    /\ UNCHANGED otherVarsOfCallback

\* the thread made in TextImproverApp.__init__ takes its baseline
MonitorStart == MonitorBaseline("mon")

\* _monitor, `while self.running:` and one turn of the loop up to the call of
\* the callback; the thread ends when it finds running False
\* (with the clipboard locked paste() raises, the loop's except prints the
\* error and the thread sleeps until its next turn)
MonitorTurn(t) ==
    /\ cb_pc[t] = "poll"
    /\ IF ~running
       THEN /\ cb_pc' = [cb_pc EXCEPT ![t] = "none"]
            /\ UNCHANGED <<cb_text, ctrl_c_pressed, last_clipboard_content,
                           read_in_write>>
       ELSE /\ NoteRead
            /\ IF clip_locked
               THEN UNCHANGED <<cb_text, ctrl_c_pressed, last_clipboard_content, cb_pc>>
               ELSE /\ cb_text' = [cb_text EXCEPT ![t] = clipboard]
                    /\ IF ctrl_c_pressed /\ strip(clipboard) # <<>>
                       THEN /\ ctrl_c_pressed' = FALSE
                            /\ last_clipboard_content' = clipboard
                            /\ cb_pc' = [cb_pc EXCEPT ![t] = "cb_check"]
                       ELSE IF /\ clipboard # last_clipboard_content
                               /\ strip(clipboard) # <<>>
                               /\ TextLen(clipboard) < max_text_length
                       THEN /\ last_clipboard_content' = clipboard
                            /\ cb_pc' = [cb_pc EXCEPT ![t] = "cb_check"]
                            /\ UNCHANGED ctrl_c_pressed
                       ELSE UNCHANGED <<ctrl_c_pressed, last_clipboard_content, cb_pc>>
    /\ UNCHANGED <<inputVars, result_frame, session>>
    /\ UNCHANGED clipVarsOfMonitor
    /\ UNCHANGED otherVarsOfCallback

\* a turn of the thread made in TextImproverApp.__init__
MonitorPoll == MonitorTurn("mon")

\* _on_key_press(e) with Ctrl held, on the event thread:
\* self.ctrl_c_pressed = True; threading.Timer(0.1, ...).start()
\* (one timer thread at a time)
_on_key_press ==
    /\ key_hooks > 0
    /\ hk_pc = "idle"
    /\ cb_pc["tmr"] = "none"
    /\ events < MaxEvents
    /\ events' = events + 1
    /\ ctrl_c_pressed' = TRUE
    /\ cb_pc' = [cb_pc EXCEPT !["tmr"] = "wait"]
    /\ UNCHANGED <<last_clipboard_content, cb_text, lifeVars>>
    /\ UNCHANGED <<errVars, clipVars, keyVars, hkVars, clipboard, inputVars, visible,
                   result_frame, resultVars, workVars, session>>

\* _check_clipboard_after_ctrl_c, up to the call of the callback
\* (with the clipboard locked paste() raises and the except ends the thread)
_check_clipboard_after_ctrl_c ==
    /\ cb_pc["tmr"] = "wait"
    /\ NoteRead
    /\ IF clip_locked
       THEN /\ cb_pc' = [cb_pc EXCEPT !["tmr"] = "none"]
            /\ UNCHANGED <<cb_text, last_clipboard_content>>
       ELSE /\ cb_text' = [cb_text EXCEPT !["tmr"] = clipboard]
            /\ IF strip(clipboard) # <<>> /\ TextLen(clipboard) < max_text_length
               THEN /\ last_clipboard_content' = clipboard
                    /\ cb_pc' = [cb_pc EXCEPT !["tmr"] = "cb_check"]
               ELSE /\ UNCHANGED last_clipboard_content
                    /\ cb_pc' = [cb_pc EXCEPT !["tmr"] = "none"]
    /\ UNCHANGED <<ctrl_c_pressed, inputVars, result_frame, session>>
    /\ UNCHANGED clipVarsOfMonitor
    /\ UNCHANGED otherVarsOfCallback

CallbackCheckAnyWindow(t) ==
    /\ cb_pc[t] = "cb_check"
    /\ cb_pc' = [cb_pc EXCEPT ![t] =
          IF strip(cb_text[t]) # <<>> THEN "cb_delete" ELSE AfterCallback(t)]
    /\ UNCHANGED <<last_clipboard_content, ctrl_c_pressed, cb_text, inputVars,
                   result_frame, session>>
    /\ UNCHANGED <<clipVars, otherVarsOfCallback>>

\* _handle_clipboard_update(text): if self.root.winfo_viewable() and text.strip():
\* update_input_text(text): if text.strip():
CallbackCheck(t) ==
    /\ cb_pc[t] = "cb_check"
    /\ cb_pc' = [cb_pc EXCEPT ![t] =
          IF visible /\ strip(cb_text[t]) # <<>> THEN "cb_delete" ELSE AfterCallback(t)]
    /\ UNCHANGED <<last_clipboard_content, ctrl_c_pressed, cb_text, inputVars,
                   result_frame, session>>
    /\ UNCHANGED <<clipVars, otherVarsOfCallback>>

\* update_input_text: self.selected_text_display.delete("1.0", "end")
CallbackDelete(t) ==
    /\ cb_pc[t] = "cb_delete"
    /\ selected_text_display' = <<>>
    /\ cb_pc' = [cb_pc EXCEPT ![t] = "cb_insert"]
    /\ UNCHANGED <<last_clipboard_content, ctrl_c_pressed, cb_text, selected_text,
                   result_frame, session>>
    /\ UNCHANGED <<clipVars, otherVarsOfCallback>>

\* update_input_text: self.selected_text_display.insert("end", text.strip())
CallbackInsert(t) ==
    /\ cb_pc[t] = "cb_insert"
    /\ selected_text_display' = selected_text_display \o strip(cb_text[t])
    /\ cb_pc' = [cb_pc EXCEPT ![t] = "cb_store"]
    /\ UNCHANGED <<last_clipboard_content, ctrl_c_pressed, cb_text, selected_text,
                   result_frame, session>>
    /\ UNCHANGED <<clipVars, otherVarsOfCallback>>

\* update_input_text: self.selected_text = text.strip()
CallbackStore(t) ==
    /\ cb_pc[t] = "cb_store"
    /\ selected_text' = strip(cb_text[t])
    /\ session' = session + 1
    /\ cb_pc' = [cb_pc EXCEPT ![t] = "cb_forget"]
    /\ UNCHANGED <<last_clipboard_content, ctrl_c_pressed, cb_text,
                   selected_text_display, result_frame>>
    /\ UNCHANGED <<clipVars, otherVarsOfCallback>>

\* update_input_text: self.result_frame.pack_forget(), and the callback returns
CallbackForget(t) ==
    /\ cb_pc[t] = "cb_forget"
    /\ result_frame' = FALSE
    /\ cb_pc' = [cb_pc EXCEPT ![t] = AfterCallback(t)]
    /\ UNCHANGED <<last_clipboard_content, ctrl_c_pressed, cb_text, inputVars, session>>
    /\ UNCHANGED <<clipVars, otherVarsOfCallback>>

Callback(t) ==
    \/ CallbackCheck(t)
    \/ CallbackDelete(t)
    \/ CallbackInsert(t)
    \/ CallbackStore(t)
    \/ CallbackForget(t)

(***************************************************************************)
(* ui/app.py: copy_to_clipboard, on the UI loop; and the clipboard access  *)
(* methods of ClipboardMonitor, called by a client of the class            *)
(***************************************************************************)
\* improved_text = self.result_display.get("1.0", "end").strip();
\* if improved_text: the UI loop enters pyperclip.copy(improved_text)
CopyStart ==
    /\ visible /\ result_frame
    /\ copy_pc = "idle"
    /\ events < MaxEvents
    /\ events' = events + 1
    /\ copy_text' = strip(result_display)
    /\ copy_pc' = (IF strip(result_display) # <<>> THEN "writing" ELSE "idle")
    /\ UNCHANGED <<clip_locked, get_out, set_out, set_call, hk_raised, copy_raised,
                   read_in_write>>
    /\ UNCHANGED <<errVars, keyVars, hkVars, clipboard, inputVars, visible,
                   result_frame, resultVars, workVars, monVars, session>>

\* pyperclip.copy(improved_text) returns, or raises with the clipboard
\* locked: nothing in copy_to_clipboard catches it
CopyWrite ==
    /\ copy_pc = "writing"
    /\ copy_pc' = "idle"
    /\ IF clip_locked
       THEN copy_raised' = TRUE /\ UNCHANGED clipboard
       ELSE clipboard' = copy_text /\ UNCHANGED copy_raised
    /\ UNCHANGED <<clip_locked, copy_text, get_out, set_out, set_call, hk_raised,
                   read_in_write>>
    /\ UNCHANGED <<errVars, keyVars, hkVars, inputVars, visible, result_frame,
                   resultVars, workVars, monVars, session, events>>

GetWithoutCatch ==
    [called |-> TRUE, raised |-> clip_locked,
     value |-> IF clip_locked THEN <<>> ELSE clipboard]

\* get_clipboard_content(self): try: return pyperclip.paste()
\* except Exception: return ""
get_clipboard_content ==
    [called |-> TRUE, raised |-> FALSE,
     value |-> IF clip_locked THEN <<>> ELSE clipboard]

\* a client calls get_clipboard_content()
GetClipboardContent ==
    /\ events < MaxEvents
    /\ events' = events + 1
    /\ get_out' = get_clipboard_content
    /\ UNCHANGED <<clip_locked, copy_pc, copy_text, set_out, set_call, hk_raised,
                   copy_raised, read_in_write>>
    /\ UNCHANGED <<errVars, keyVars, hkVars, clipboard, inputVars, visible,
                   result_frame, resultVars, workVars, monVars, session>>

\* a client calls set_clipboard_content(text), its first statement:
\* self.last_clipboard_content = text
SetClipboardContent(text) ==
    /\ set_call.pc = "idle"
    /\ events < MaxEvents
    /\ events' = events + 1
    /\ last_clipboard_content' = text
    /\ set_call' = [pc |-> "writing", text |-> text]
    /\ UNCHANGED <<clip_locked, copy_pc, copy_text, get_out, set_out, hk_raised,
                   copy_raised, read_in_write>>
    /\ UNCHANGED <<ctrl_c_pressed, cb_pc, cb_text, lifeVars>>
    /\ UNCHANGED <<errVars, keyVars, hkVars, clipboard, inputVars, visible,
                   result_frame, resultVars, workVars, session>>

\* set_clipboard_content, the rest: pyperclip.copy(text); return True
\* except Exception: return False
SetClipboardWrite ==
    /\ set_call.pc = "writing"
    /\ set_call' = [set_call EXCEPT !.pc = "idle"]
    /\ clipboard' = (IF clip_locked THEN clipboard ELSE set_call.text)
    /\ set_out' = [called |-> TRUE, raised |-> FALSE, value |-> ~clip_locked]
    /\ UNCHANGED <<clip_locked, copy_pc, copy_text, get_out, hk_raised, copy_raised,
                   read_in_write>>
    /\ UNCHANGED <<errVars, keyVars, hkVars, inputVars, visible,
                   result_frame, resultVars, workVars, monVars, session, events>>

\* the positions of a monitor thread inside the callback
InCallback == {"cb_check", "cb_delete", "cb_insert", "cb_store", "cb_forget"}

\* the polling threads that are alive
AlivePollers == {t \in PollThreads : cb_pc[t] # "none"}

\* start(self): if self.thread is not None and self.thread.is_alive(): return
\* self.running = True; self.thread = threading.Thread(...); self.thread.start()
\* keyboard.on_press_key("c", self._on_key_press, suppress=False)
start ==
    /\ stop_pc = "idle"
    /\ events < MaxEvents
    /\ events' = events + 1
    /\ IF thread # "None" /\ cb_pc[thread] # "none"
       THEN UNCHANGED <<running, thread, key_hooks, cb_pc>>
       ELSE /\ running' = TRUE
            /\ \E t \in PollThreads :
                  /\ cb_pc[t] = "none"
                  /\ thread' = t
                  /\ cb_pc' = [cb_pc EXCEPT ![t] = "init"]
            /\ key_hooks' = key_hooks + 1
    /\ UNCHANGED <<stop_pc, last_clipboard_content, ctrl_c_pressed, cb_text>>
    /\ UNCHANGED <<errVars, clipVars, keyVars, hkVars, clipboard, inputVars, visible,
                   result_frame, resultVars, workVars, session>>

\* stop(self): self.running = False; keyboard.unhook_key("c") (an error of
\* it is swallowed); if self.thread is not None: the caller enters
\* self.thread.join(timeout=1.0)
stop ==
    /\ stop_pc = "idle"
    /\ events < MaxEvents
    /\ events' = events + 1
    /\ running' = FALSE
    /\ key_hooks' = (IF key_hooks > 0 THEN key_hooks - 1 ELSE 0)
    /\ stop_pc' = (IF thread # "None" THEN "joining" ELSE "idle")
    /\ UNCHANGED <<thread, last_clipboard_content, ctrl_c_pressed, cb_pc, cb_text>>
    /\ UNCHANGED <<errVars, clipVars, keyVars, hkVars, clipboard, inputVars, visible,
                   result_frame, resultVars, workVars, session>>

\* self.thread.join(timeout=1.0) returns, because the thread has ended or
\* because the 1.0 s are over (taken here only where the thread is inside the
\* callback, whose Tk calls wait for the UI loop); self.thread = None
StopJoin ==
    /\ stop_pc = "joining"
    /\ cb_pc[thread] = "none" \/ cb_pc[thread] \in InCallback
    /\ thread' = "None"
    /\ stop_pc' = "idle"
    /\ UNCHANGED <<running, key_hooks, last_clipboard_content, ctrl_c_pressed, cb_pc,
                   cb_text>>
    /\ UNCHANGED <<errVars, clipVars, keyVars, hkVars, clipboard, inputVars, visible,
                   result_frame, resultVars, workVars, session, events>>

\* Another program opens the clipboard and holds it, or lets it go.
ClipboardLock ==
    /\ events < MaxEvents
    /\ events' = events + 1
    /\ clip_locked' = ~clip_locked
    /\ UNCHANGED <<copy_pc, copy_text, get_out, set_out, set_call, hk_raised,
                   copy_raised, read_in_write>>
    /\ UNCHANGED <<errVars, keyVars, hkVars, clipboard, inputVars, visible,
                   result_frame, resultVars, workVars, monVars, session>>

(***************************************************************************)
(* The environment of Spec: another program, or the application that the   *)
(* copy command reached, puts a text on the clipboard; the double-press    *)
(* gesture fires (_handle_shift_double_press calls _on_hotkey_pressed).    *)
(***************************************************************************)
ClipboardChange(text) ==
    /\ text # clipboard
    /\ events < MaxEvents
    /\ events' = events + 1
    /\ clipboard' = text
    /\ UNCHANGED <<errVars, clipVars, keyVars, hkVars, inputVars, visible, result_frame,
                   resultVars, workVars, monVars, session>>

\* _on_hotkey_pressed() is entered: keyboard.send('ctrl+c')
HotkeyPressed ==
    /\ hk_pc = "idle"
    /\ events < MaxEvents
    /\ events' = events + 1
    /\ HotkeySend
    /\ UNCHANGED <<errVars, clipVars, keyVars, clipboard, inputVars, visible, result_frame,
                   resultVars, workVars, monVars, session>>

(***************************************************************************)
(* The state after TextImproverApp.__init__                                *)
(***************************************************************************)
AppInit ==
    /\ now = StartMs
    /\ keyQueue = <<>>
    /\ _last_shift_time = 0
    /\ hk_pc = "idle"
    /\ hk_text = <<>>
    /\ hk_viewable = FALSE
    /\ processing_selection = FALSE
    /\ clipboard \in ClipboardTexts
    /\ selected_text = <<>>
    /\ selected_text_display = <<>>
    /\ visible = FALSE
    /\ result_frame = FALSE
    /\ result_display = <<>>
    /\ improve_button = "normal"
    /\ interview_button = "normal"
    /\ workers = EmptyBag
    /\ afterQueue = EmptyBag
    /\ last_clipboard_content = <<>>
    /\ ctrl_c_pressed = FALSE
    /\ cb_pc = [mon |-> "init", mon2 |-> "none", tmr |-> "none"]
    /\ cb_text = [mon |-> <<>>, mon2 |-> <<>>, tmr |-> <<>>]
    /\ running = TRUE
    /\ thread = "mon"
    /\ key_hooks = 1
    /\ stop_pc = "idle"
    /\ clip_locked = FALSE
    /\ copy_pc = "idle"
    /\ copy_text = <<>>
    /\ get_out = [called |-> FALSE, raised |-> FALSE, value |-> <<>>]
    /\ set_out = [called |-> FALSE, raised |-> FALSE, value |-> FALSE]
    /\ set_call = [pc |-> "idle", text |-> <<>>]
    /\ hk_raised = FALSE
    /\ copy_raised = FALSE
    /\ read_in_write = FALSE
    /\ pressLog = <<>>
    /\ copies = 0
    /\ session = 0
    /\ sent = <<>>
    /\ delivered = <<>>
    /\ ignored = 0
    /\ events = 0

HotkeyCapture ==
    \/ HotkeyRead
    \/ ProcessEnter
    \/ ProcessDelete
    \/ ProcessInsert
    \/ ProcessViewable
    \/ ProcessShow
    \/ ProcessForget
    \/ ProcessFinally
    \/ PlaceholderViewable
    \/ PlaceholderDelete
    \/ PlaceholderInsert
    \/ PlaceholderShow

(***************************************************************************)
(* SpecKeys: the key presses, the clock and the event thread               *)
(***************************************************************************)
KeysInit == AppInit /\ err_in = <<>> /\ err_out = <<>>

KeysNext ==
    \/ \E name \in KeyNames : KeyArrive(name)
    \/ Tick
    \/ HandleKey
    \/ HotkeyCapture

SpecKeys == KeysInit /\ [][KeysNext]_vars

(***************************************************************************)
(* SpecErr: _handle_api_error on every error text                          *)
(***************************************************************************)
ErrNext == HandleApiError /\ UNCHANGED <<clipVars, keyVars, hkVars, clipboard, inputVars,
               visible, result_frame, resultVars, workVars, monVars, session, events>>

\* error_str = str(error), for every error text
ErrInit == AppInit /\ err_in \in ErrorTexts /\ err_out = <<>>

SpecErr == ErrInit /\ [][ErrNext]_vars

(***************************************************************************)
(* SpecCall: captures and requests, with a completion service that returns *)
(* a text, returns a response without content, or raises any of the error  *)
(* texts of one fragment                                                   *)
(***************************************************************************)
CallErrors == {<<>>} \cup ErrFragments

AllOutcomes(w) ==
    {[type |-> "text", value |-> Complete(w.kind, w.text)],
     [type |-> "malformed", value |-> <<>>]}
       \cup {[type |-> "raise", value |-> e] : e \in CallErrors}

\* At most MaxCallEvents gestures and clicks happen in a run of SpecCall.
MaxCallEvents == 2

CallNext ==
    \/ events < MaxCallEvents /\ HotkeyPressed
    \/ HotkeyCapture
    \/ \E kind \in Actions : events < MaxCallEvents /\ Click(kind)
    \/ \E w \in BagToSet(workers) : WorkerRead(w)
    \/ \E w \in BagToSet(workers) : \E outcome \in AllOutcomes(w) : WorkerCall(w, outcome)
    \/ \E cb \in BagToSet(afterQueue) : RunAfter(cb)

SpecCall == KeysInit /\ [][CallNext]_vars

(***************************************************************************)
(* SpecClip: the accesses to the clipboard (the hotkey capture, the        *)
(* polling thread, copy_to_clipboard of an Improve result, the access      *)
(* methods of ClipboardMonitor), with a clipboard that another program can *)
(* lock                                                                    *)
(***************************************************************************)
ClipNext ==
    \/ ClipboardLock
    \/ GetClipboardContent
    \/ \E text \in ClipboardTexts : SetClipboardContent(text)
    \/ SetClipboardWrite
    \/ HotkeyPressed
    \/ HotkeyCapture
    \/ Click("improve")
    \/ \E w \in BagToSet(workers) : WorkerRead(w)
    \/ \E w \in BagToSet(workers) : \E outcome \in Outcomes(w) : WorkerCall(w, outcome)
    \/ \E cb \in BagToSet(afterQueue) : RunAfter(cb)
    \/ CopyStart
    \/ CopyWrite
    \/ MonitorStart
    \/ MonitorPoll
    \/ Callback("mon")

SpecClip == KeysInit /\ [][ClipNext]_vars

(***************************************************************************)
(* SpecMon: the captures (the hotkey path, the polling thread, the Ctrl+C  *)
(* timer thread), with clipboard texts below and above max_text_length     *)
(***************************************************************************)
\* texts of max_text_length - 1 and of max_text_length + 1 characters
LongTexts == {<<LongRun>>, <<LongRun, "a", "b">>}

MonNext ==
    \/ \E text \in ClipboardTexts \cup LongTexts : ClipboardChange(text)
    \/ HotkeyPressed
    \/ HotkeyCapture
    \/ MonitorStart
    \/ MonitorPoll
    \/ _on_key_press
    \/ _check_clipboard_after_ctrl_c
    \/ \E t \in CallbackThreads : Callback(t)

SpecMon == KeysInit /\ [][MonNext]_vars

(***************************************************************************)
(* SpecLife: start() and stop() of the ClipboardMonitor, called one after  *)
(* the other, with its polling threads, the clipboard and the hotkey       *)
(* capture that shows the window                                           *)
(***************************************************************************)
LifeNext ==
    \/ start
    \/ stop
    \/ StopJoin
    \/ \E text \in ClipboardTexts : ClipboardChange(text)
    \/ HotkeyPressed
    \/ HotkeyCapture
    \/ \E t \in PollThreads : MonitorBaseline(t)
    \/ \E t \in PollThreads : MonitorTurn(t)
    \/ \E t \in PollThreads : Callback(t)

SpecLife == KeysInit /\ [][LifeNext]_vars

(***************************************************************************)
(* Properties of the double-press gesture (SpecKeys)                       *)
(***************************************************************************)
FiredPresses == {i \in 1..Len(pressLog) : pressLog[i].fired}

\* C1: of two consecutive Shift presses less than the interval apart, the
\* second fires the gesture, exactly once (one copy command per firing press),
\* and leaves the stored time at the sentinel 0; the press after a firing
\* press never fires, so three fast presses fire one gesture.
C1_DoublePressFiresOnce ==
    /\ \A i \in 1..(Len(pressLog) - 1) :
          /\ (~pressLog[i].fired /\ pressLog[i+1].t - pressLog[i].t < _shift_interval_ms)
                => pressLog[i+1].fired
          /\ pressLog[i].fired => ~pressLog[i+1].fired
    /\ copies = Cardinality(FiredPresses)
    /\ (pressLog # <<>> /\ pressLog[Len(pressLog)].fired) => _last_shift_time = 0

\* Three presses, the third less than twice the interval after the first: the
\* second fired and the third did not.
C1_Witness ==
    /\ Len(pressLog) >= 3
    /\ pressLog[2].fired
    /\ ~pressLog[3].fired
    /\ pressLog[3].t - pressLog[1].t < 2 * _shift_interval_ms
    /\ copies = 1

\* C2: of two consecutive Shift presses at least the interval apart, the second
\* fires nothing and is stored as the last press, and a fast press after it
\* completes the gesture.
C2_SlowPairStartsNewWindow ==
    /\ \A i \in 1..(Len(pressLog) - 1) :
          pressLog[i+1].t - pressLog[i].t >= _shift_interval_ms
             => /\ ~pressLog[i+1].fired
                /\ (i + 2 <= Len(pressLog)
                    /\ pressLog[i+2].t - pressLog[i+1].t < _shift_interval_ms)
                      => pressLog[i+2].fired
    /\ (Len(pressLog) >= 2
        /\ pressLog[Len(pressLog)].t - pressLog[Len(pressLog) - 1].t >= _shift_interval_ms)
          => _last_shift_time = pressLog[Len(pressLog)].t

\* A slow pair exactly the interval apart, then a fast press that fires.
C2_Witness ==
    /\ Len(pressLog) >= 3
    /\ pressLog[2].t - pressLog[1].t = _shift_interval_ms
    /\ ~pressLog[2].fired
    /\ pressLog[3].fired

\* C10: a gesture whose two presses arrive while a capture is in progress is
\* a no-op: it sends no copy command.
C10_GestureDuringCaptureIsNoOp ==
    \A i \in 2..Len(pressLog) :
        (pressLog[i].during /\ pressLog[i-1].during) => ~pressLog[i].fired

(***************************************************************************)
(* Spec: the application, with every thread that touches its state         *)
(***************************************************************************)
Init == AppInit /\ err_in = <<>> /\ err_out = <<>>

Next ==
    \/ HotkeyPressed
    \/ HotkeyCapture
    \/ \E text \in ClipboardTexts : ClipboardChange(text)
    \/ \E kind \in Actions : Click(kind)
    \/ hide_window
    \/ \E w \in BagToSet(workers) : WorkerRead(w)
    \/ \E w \in BagToSet(workers) : \E outcome \in Outcomes(w) : WorkerCall(w, outcome)
    \/ \E cb \in BagToSet(afterQueue) : RunAfter(cb)
    \/ MonitorStart
    \/ MonitorPoll
    \/ _on_key_press
    \/ _check_clipboard_after_ctrl_c
    \/ \E t \in CallbackThreads : Callback(t)

Spec == Init /\ [][Next]_vars

(***************************************************************************)
(* Properties of the application (Spec)                                    *)
(***************************************************************************)
\* requests of an action that are under way: its worker threads, and their
\* results not yet handed to _update_result / _update_interview_result
InFlight(kind) ==
    LET ws == {w \in BagToSet(workers) : w.kind = kind}
        us == {cb \in BagToSet(afterQueue) : cb.fn = kind}
    IN  BagCardinality([w \in ws |-> workers[w]])
          + BagCardinality([cb \in us |-> afterQueue[cb]])

\* C3: for each action button, at most one request is in flight, and the
\* button is Pending (disabled) exactly while one is: a click on the Pending
\* button starts no second worker and leaves it Pending.
C3_OneRequestPerAction ==
    \A kind \in Actions :
        /\ InFlight(kind) <= 1
        /\ (ButtonOf(kind) = "disabled") <=> (InFlight(kind) = 1)

\* The Improve button was clicked while Pending, and is still Pending with its
\* one request in flight.
C3_Witness ==
    /\ ignored >= 1
    /\ improve_button = "disabled"
    /\ InFlight("improve") = 1
    /\ interview_button = "normal"

\* the step in which the UI loop hands result cb to _update_result or
\* _update_interview_result
Delivers(cb) ==
    /\ cb.fn \in Actions
    /\ BagIn(cb, afterQueue)
    /\ Len(delivered') = Len(delivered) + 1
    /\ delivered'[Len(delivered')] = [kind |-> cb.fn, text |-> cb.text]
    /\ CopiesIn(cb, afterQueue') < CopiesIn(cb, afterQueue)

\* no callback of the clipboard monitor is inside update_input_text
CallbacksQuiet == \A t \in CallbackThreads : cb_pc[t] \in {"init", "poll", "none", "wait"}

\* C4: the service's text for a request, when it reaches the UI after a newer
\* capture has started and ended (it answers a text that is no longer the
\* captured text), is not rendered: the visible result area is left as it is.
C4_StaleResponseNotRendered ==
    [][\A cb \in BagToSet(afterQueue) :
          (/\ Delivers(cb)
           /\ cb.sess < session /\ cb.req # selected_text
           /\ cb.req # <<>> /\ cb.text = Complete(cb.fn, cb.req)
           /\ hk_pc = "idle" /\ CallbacksQuiet
           /\ result_frame)
             => result_display' = result_display]_vars

\* C5: when a hotkey capture of a non-blank clipboard text ends, the input
\* area shows exactly the trimmed clipboard text and the stored captured text
\* is that same text (where the clipboard monitor captured a text meanwhile,
\* both may be that capture's text instead); its pack_forget leaves the result
\* area hidden.
C5_CaptureShowsTrimmedText ==
    [][/\ (hk_pc = "pst_finally" /\ hk_pc' = "idle" /\ CallbacksQuiet')
            => selected_text_display' = selected_text'
       /\ (hk_pc = "pst_forget" /\ hk_pc' = "pst_finally") => ~result_frame']_vars

\* C6: when a hotkey capture of an empty or blank clipboard ends, the input
\* area shows the placeholder (where the clipboard monitor captured a text
\* meanwhile, it may show that capture's text instead), and such a capture
\* never enters process_selected_text.
C6_BlankCaptureShowsPlaceholder ==
    [][/\ (hk_pc = "ph_show" /\ hk_pc' = "idle" /\ CallbacksQuiet')
            => \/ selected_text_display' = Placeholder
               \/ selected_text_display' = selected_text'
       /\ (hk_pc = "sleep" /\ hk_pc' # "sleep" /\ strip(hk_text') = <<>>)
            => hk_pc' = "ph_check"]_vars

(***************************************************************************)
(* Properties of _handle_api_error (SpecErr)                               *)
(***************************************************************************)
SameLetter(a, b) ==
    \/ a = b
    \/ \E i \in 1..Len(UpperAlpha) : {a, b} = {UpperAlpha[i], LowerAlpha[i]}

\* the error text contains the keyword, whatever the case of its letters
Mentions(s, kw) ==
    \E i \in 0..(Len(s) - Len(kw)) : \A k \in 1..Len(kw) : SameLetter(s[i + k], kw[k])

\* C7: every error text is classified, whatever the case of its letters, by
\* the first rule that matches: "rate limit"; "authentication" or "api key";
\* "timeout" or "timed out"; "connection"; and any other text gets the
\* unknown-error message, which embeds the text as it is.
C7_FirstMatchingRule ==
    LET rate == Mentions(err_in, KwRateLimit)
        auth == Mentions(err_in, KwAuthentication) \/ Mentions(err_in, KwApiKey)
        tout == Mentions(err_in, KwTimeout) \/ Mentions(err_in, KwTimedOut)
        conn == Mentions(err_in, KwConnection)
    IN  err_out # <<>> =>
          /\ rate => err_out = MsgRateLimit
          /\ (~rate /\ auth) => err_out = MsgAuth
          /\ (~rate /\ ~auth /\ tout) => err_out = MsgTimeout
          /\ (~rate /\ ~auth /\ ~tout /\ conn) => err_out = MsgConnection
          /\ (~rate /\ ~auth /\ ~tout /\ ~conn) => err_out = MsgPrefix \o err_in

\* A text that matches the second rule and, in capitals, the first, has been
\* given the rate-limit message.
C7_Witness ==
    /\ err_out = MsgRateLimit
    /\ Mentions(err_in, KwApiKey)
    /\ ~Contains(err_in, KwRateLimit)

(***************************************************************************)
(* Properties of one capture and one request (Spec)                        *)
(***************************************************************************)
\* t is s without the whitespace at its two ends
IsTrimOf(t, s) ==
    \E i, j \in 0..Len(s) :
        /\ i + j <= Len(s)
        /\ t = SubSeq(s, i + 1, Len(s) - j)
        /\ \A k \in 1..i : s[k] \in Whitespace
        /\ \A k \in (Len(s) - j + 1)..Len(s) : s[k] \in Whitespace
        /\ t # <<>> => (t[1] \notin Whitespace /\ t[Len(t)] \notin Whitespace)

\* the requests of an action so far: under way, or delivered
Requested(kind) ==
    InFlight(kind) + Cardinality({i \in 1..Len(delivered) : delivered[i].kind = kind})

\* the run so far is one hotkey capture followed by one click on Improve
OneCaptureOneImprove == events = 2 /\ copies = 1 /\ Requested("improve") >= 1

\* C8: end to end, after one capture and one Improve click: the stored text
\* is the trimmed clipboard text; that text is what is sent, once; the reply
\* is delivered to the result display exactly once; and the Improve button
\* only goes normal -> disabled (the click that starts the request) and
\* disabled -> normal (the delivery of the reply).
C8_EndToEnd ==
    /\ [](OneCaptureOneImprove =>
            /\ Requested("improve") = 1 /\ Requested("interview") = 0
            /\ IsTrimOf(selected_text, clipboard)
            /\ Len(sent) <= 1 /\ Len(delivered) <= 1
            /\ \A i \in 1..Len(sent) : sent[i] = [kind |-> "improve", text |-> selected_text]
            /\ improve_button = (IF InFlight("improve") = 1 THEN "disabled" ELSE "normal")
            /\ InFlight("improve") = 0 =>
                  /\ Len(sent) = 1 /\ Len(delivered) = 1
                  /\ delivered[1].text \in {<<"improved:">> \o selected_text, MsgRateLimit}
                  /\ Len(result_display) <= Len(delivered[1].text)
                  /\ result_display = SubSeq(delivered[1].text, 1, Len(result_display))
                  /\ afterQueue = EmptyBag => result_display = delivered[1].text)
    /\ [][improve_button' # improve_button =>
            \/ /\ improve_button = "normal" /\ improve_button' = "disabled"
               /\ InFlight("improve")' = InFlight("improve") + 1
               /\ delivered' = delivered
            \/ /\ improve_button = "disabled" /\ improve_button' = "normal"
               /\ delivered' = Append(delivered, delivered'[Len(delivered')])
               /\ delivered'[Len(delivered')].kind = "improve"]_vars

\* A padded clipboard text was captured, improved, and the reply is on display.
C8_Witness ==
    /\ OneCaptureOneImprove
    /\ clipboard = <<" ", "a", " ">>
    /\ selected_text = <<"a">>
    /\ sent = <<[kind |-> "improve", text |-> <<"a">>]>>
    /\ delivered = <<[kind |-> "improve", text |-> <<"improved:", "a">>]>>
    /\ result_display = <<"improved:", "a">>
    /\ result_frame /\ improve_button = "normal"
    /\ workers = EmptyBag /\ afterQueue = EmptyBag

\* the step at which an accepted capture has finished its display update
CaptureAccepted ==
    \/ hk_pc = "pst_forget" /\ hk_pc' = "pst_finally"
    \/ \E t \in CallbackThreads : cb_pc[t] = "cb_forget" /\ cb_pc'[t] # "cb_forget"

C11_OnlyUiLoopMutatesUi ==
    [][<<selected_text, selected_text_display, result_frame, visible>>'
          # <<selected_text, selected_text_display, result_frame, visible>>
            => (hk_pc' = hk_pc /\ cb_pc' = cb_pc)]_vars

\* C12: the handler of a key event never keeps the delivery thread: no key
\* event arrives to find the thread inside a capture (its settle delay, its
\* clipboard read, its display update), so none is handled late.
C12_KeyHandlerNeverBlocks ==
    /\ \A i \in 1..Len(keyQueue) : ~keyQueue[i].during
    /\ \A i \in 1..Len(pressLog) : ~pressLog[i].during

(***************************************************************************)
(* Properties of the requests (Spec)                                       *)
(***************************************************************************)
\* C14: when the reply of a Pending action reaches the UI, its button is
\* enabled again and the result area is visible (with the reply in it), in
\* every interleaving with captures and with the other action.
C14_PendingEndsWithVisibleResult ==
    [][\A cb \in BagToSet(afterQueue) :
          Delivers(cb) => /\ ButtonOf(cb.fn)' = "normal"
                          /\ result_frame'
                          /\ result_display' = SubSeq(cb.text, 1, Len(result_display'))]_vars

\* the calls made to the completion service for an action
CallsOf(kind) == Cardinality({i \in 1..Len(sent) : sent[i].kind = kind})

\* C15: each accepted trigger makes exactly one call to the completion
\* service, whether it succeeds or fails: a worker is started only by an
\* accepted click, one per click, and it ends with its one call; no call is
\* made without a worker ending, so a failed call is never repeated.
C15_OneCallPerTrigger ==
    [][/\ workers' # workers =>
            \/ \E kind \in Actions :
                  /\ ButtonOf(kind) = "normal" /\ ButtonOf(kind)' = "disabled"
                  /\ BagCardinality(workers') = BagCardinality(workers) + 1
                  /\ sent' = sent
            \/ /\ BagCardinality(workers') = BagCardinality(workers)
               /\ sent' = sent
            \/ /\ BagCardinality(workers') = BagCardinality(workers) - 1
               /\ Len(sent') = Len(sent) + 1
       /\ sent' # sent =>
            /\ BagCardinality(workers') = BagCardinality(workers) - 1
            /\ sent' = Append(sent, sent'[Len(sent')])
       /\ \A kind \in Actions : (Requested(kind) = CallsOf(kind) + Cardinality(
              {w \in BagToSet(workers) : w.kind = kind}))']_vars

\* One Improve request failed, its error message was delivered, and the one
\* call was all that was made.
C15_Witness ==
    /\ sent # <<>>
    /\ Len(sent) = 1
    /\ delivered = <<[kind |-> "improve", text |-> MsgRateLimit]>>
    /\ workers = EmptyBag
    /\ afterQueue = EmptyBag
    /\ improve_button = "normal"

(***************************************************************************)
(* Properties of the completion calls (SpecCall)                           *)
(***************************************************************************)
\* msg is the message of the first rule that error text e matches
IsClassificationOf(msg, e) ==
    IF Mentions(e, KwRateLimit) THEN msg = MsgRateLimit
    ELSE IF Mentions(e, KwAuthentication) \/ Mentions(e, KwApiKey) THEN msg = MsgAuth
    ELSE IF Mentions(e, KwTimeout) \/ Mentions(e, KwTimedOut) THEN msg = MsgTimeout
    ELSE IF Mentions(e, KwConnection) THEN msg = MsgConnection
    ELSE msg = MsgPrefix \o e

\* the updates scheduled on the UI loop and not yet run
ScheduledUpdates == {cb \in BagToSet(afterQueue) : cb.fn \in Actions}

\* C13: every completion attempt resolves to a string delivered to the UI:
\* each call that was made has scheduled exactly one result update, and the
\* string it carries is the service's text when it returned one, and else
\* the classified error message, whatever the service did.
C13_EveryCallResolves ==
    /\ Len(sent) = Len(delivered)
          + BagCardinality([cb \in ScheduledUpdates |-> afterQueue[cb]])
    /\ \A cb \in ScheduledUpdates :
          /\ cb.out.type = "text" => cb.text = cb.out.value
          /\ cb.out.type = "malformed" => cb.text = MsgExtract
          /\ cb.out.type = "raise" => IsClassificationOf(cb.text, cb.out.value)

\* A call raised "Connection", and the connection message is scheduled for
\* the UI.
C13_Witness ==
    \E cb \in ScheduledUpdates :
        /\ cb.out = [type |-> "raise", value |-> <<"C","o","n","n","e","c","t","i","o","n">>]
        /\ cb.text = MsgConnection
        /\ workers = EmptyBag

(***************************************************************************)
(* Properties of the clipboard accesses (SpecClip)                         *)
(***************************************************************************)
\* C16: clipboard access never throws to its caller: get_clipboard_content
\* gives the clipboard text, or the empty string when the read fails;
\* set_clipboard_content gives True when the text is on the clipboard
\* and False when the write failed.
C16_ClipboardAccessNeverThrows ==
    [][/\ get_out' # get_out =>
            /\ ~get_out'.raised
            /\ get_out'.value = (IF clip_locked THEN <<>> ELSE clipboard)
       /\ set_out' # set_out =>
            /\ ~set_out'.raised
            /\ set_out'.value = ~clip_locked
            /\ set_out'.value => clipboard' = set_call.text
            /\ ~set_out'.value => clipboard' = clipboard]_vars

\* Both methods have been called with the clipboard locked: the read gave the
\* empty string and the write gave False.
C16_Witness ==
    /\ clip_locked
    /\ get_out = [called |-> TRUE, raised |-> FALSE, value |-> <<>>]
    /\ set_out = [called |-> TRUE, raised |-> FALSE, value |-> FALSE]
    /\ clipboard # <<>>

\* C17: a clipboard read that fails during a hotkey capture, and a clipboard
\* write that fails in copy_to_clipboard, do not propagate: no exception
\* leaves the gesture handler or reaches the event loop, and the capture
\* whose read failed shows the placeholder.
C17_ClipboardFailureContained ==
    /\ ~hk_raised
    /\ ~copy_raised

\* C20: no capture reads the clipboard (hotkey path or monitor) while a
\* copy_to_clipboard write is outstanding.
C20_NoReadDuringCopy == ~read_in_write

(***************************************************************************)
(* Properties of the captures (SpecMon)                                    *)
(***************************************************************************)
\* C18: no path of the clipboard monitor (polling loop, Ctrl+C flag path,
\* Ctrl+C timer path) hands a text longer than max_text_length to the
\* callback, while the hotkey capture takes the text it read whatever its
\* length.
C18_MonitorDropsLongText ==
    [][/\ \A t \in CallbackThreads :
            (cb_pc[t] # "cb_check" /\ cb_pc'[t] = "cb_check")
               => TextLen(cb_text'[t]) <= max_text_length
       /\ (hk_pc = "sleep" /\ hk_pc' # "sleep" /\ strip(clipboard) # <<>>)
            => (hk_pc' = "pst_enter" /\ hk_text' = clipboard)]_vars

\* C19: once all captures have finished, the stored captured text and the
\* text shown in the input area do not disagree: the input area shows the
\* stored text (or the placeholder of a capture that found nothing).
C19_CapturesLastWins ==
    (hk_pc = "idle" /\ CallbacksQuiet)
       => selected_text_display \in {selected_text, Placeholder}

(***************************************************************************)
(* Properties of the capture that finds nothing (Spec)                     *)
(***************************************************************************)
\* a step of the event thread inside the else branch of _on_hotkey_pressed:
\* the read that finds the clipboard empty or blank, and what follows it
PlaceholderStep ==
    \/ hk_pc = "sleep" /\ hk_pc' = "ph_check"
    \/ hk_pc \in {"ph_check", "ph_delete", "ph_insert", "ph_show"} /\ hk_pc' # hk_pc

\* C21: a capture that finds the clipboard empty changes only the text of the
\* input area (to the placeholder) and the visibility of the window: each of
\* its steps leaves the result area's visibility and content, the states of
\* the action buttons, the requests in flight and the stored captured text as
\* they are, and the text it puts into the input area is the placeholder.
C21_EmptyCaptureKeepsWindowState ==
    [][PlaceholderStep =>
          /\ UNCHANGED <<result_frame, result_display, improve_button, interview_button,
                         workers, afterQueue, sent, delivered, selected_text>>
          /\ selected_text_display' # selected_text_display
                => selected_text_display' \in {<<>>, selected_text_display \o Placeholder}
          /\ visible' # visible => (visible' /\ hk_pc = "ph_show")]_vars

\* A capture that found nothing is about to return while Improve is Pending:
\* the placeholder is shown, the result area is still visible with the busy
\* text, the button is still disabled and its request is in flight.
C21_Witness ==
    /\ hk_pc = "ph_show"
    /\ selected_text_display = Placeholder
    /\ selected_text # <<>>
    /\ result_frame
    /\ result_display = BusyText("improve")
    /\ improve_button = "disabled"
    /\ InFlight("improve") = 1

InUpdateInputText == {"cb_delete", "cb_insert", "cb_store", "cb_forget"}

\* C23: a notification of the clipboard monitor changes the application only
\* when it finds the window visible and its text is not blank: with the window
\* hidden or a blank text the callback returns at once, and the captured text,
\* the input area and the result area are left as they are; a monitor thread
\* changes them only inside update_input_text, which it enters only from that
\* test.
C23_NotificationNeedsVisibleWindow ==
    [][\A t \in CallbackThreads :
          /\ (cb_pc[t] = "cb_check" /\ cb_pc'[t] # "cb_check") =>
                /\ UNCHANGED <<selected_text, selected_text_display, result_frame,
                               result_display>>
                /\ cb_pc'[t] = (IF visible /\ strip(cb_text[t]) # <<>>
                                THEN "cb_delete" ELSE AfterCallback(t))
          /\ (cb_pc[t] # "cb_delete" /\ cb_pc'[t] = "cb_delete") =>
                (cb_pc[t] = "cb_check" /\ visible /\ strip(cb_text[t]) # <<>>)
          /\ (/\ cb_pc'[t] # cb_pc[t]
              /\ <<selected_text, selected_text_display, result_frame, result_display>>'
                    # <<selected_text, selected_text_display, result_frame, result_display>>)
                => cb_pc[t] \in InUpdateInputText]_vars

\* The Ctrl+C timer has notified the application of a non-blank text while the
\* window was hidden (no capture has ever shown it): the callback has
\* returned, and nothing was captured or displayed.
C23_Witness ==
    /\ cb_pc["tmr"] = "none"
    /\ strip(cb_text["tmr"]) # <<>>
    /\ ~visible /\ copies = 0 /\ session = 0
    /\ selected_text = <<>>
    /\ selected_text_display = <<>>
    /\ ~result_frame

(***************************************************************************)
(* Properties of set_clipboard_content and the polling loop (SpecClip)     *)
(***************************************************************************)
\* C24: a successful set_clipboard_content(text) never triggers the monitor:
\* where that call is the only thing that has happened to the clipboard (no
\* other event so far, the clipboard not locked), the polling loop never
\* invokes the callback, neither with the written text nor with the text
\* that was on the clipboard before.
C24_SetNeverTriggersMonitor ==
    [][(/\ events = 1
        /\ set_call.pc = "writing" \/ (set_out.called /\ set_out.value)
        /\ cb_pc["mon"] = "poll")
          => cb_pc'["mon"] # "cb_check"]_vars

(***************************************************************************)
(* Properties of start() and stop() (SpecLife)                             *)
(***************************************************************************)
\* C25: after any sequence of start() and stop() calls at most one polling
\* thread is alive, and a start() that finds its thread alive starts no
\* thread and registers no key hook.
C25_AtMostOnePollingThread ==
    /\ [](Cardinality(AlivePollers) <= 1)
    /\ [][(/\ events' = events + 1 /\ running' /\ stop_pc' = "idle"
            /\ thread # "None" /\ cb_pc[thread] # "none")
              => UNCHANGED <<cb_pc, key_hooks, thread>>]_vars

(***************************************************************************)
(* Properties of one Ctrl+C press (SpecMon)                                *)
(***************************************************************************)
\* the Ctrl+C timer thread has invoked the callback with its text
TimerNotified ==
    /\ cb_pc["tmr"] # "wait"
    /\ strip(cb_text["tmr"]) # <<>>
    /\ TextLen(cb_text["tmr"]) < max_text_length

\* C26: one Ctrl+C press with a non-blank clipboard text under the length
\* limit makes the monitor invoke its callback at most once for that text:
\* where the press is the only event so far, the polling loop does not invoke
\* the callback with the text the timer path has already handed over, and the
\* timer path does not invoke it once the polling loop has taken the flag.
C26_OneCallbackPerCtrlC ==
    [][events = 1 =>
          /\ ~(/\ TimerNotified
               /\ cb_pc["mon"] = "poll" /\ cb_pc'["mon"] = "cb_check"
               /\ cb_text'["mon"] = cb_text["tmr"])
          /\ ~(/\ cb_pc["tmr"] = "wait" /\ ~ctrl_c_pressed
               /\ cb_pc'["tmr"] = "cb_check")]_vars

(***************************************************************************)
(* Properties of the text that is sent and of the result shown (Spec)      *)
(***************************************************************************)
\* C27: the text sent to the completion service for an action is the
\* captured text that was current when the action was triggered: the text a
\* worker has read for its call is the text stored at the click that started
\* it (here: for a click made with a text captured), also when a capture
\* happened in between.
C27_SendsTextOfTrigger ==
    \A w \in BagToSet(workers) : (w.pc = "call" /\ w.at # <<>>) => w.text = w.at

\* C28: once every request has been delivered and every typewriter callback
\* has run, the result area holds exactly the text of the result delivered
\* last, with no character of an earlier result in it.
C28_ResultAreaShowsLastResult ==
    (workers = EmptyBag /\ afterQueue = EmptyBag /\ delivered # <<>>)
       => result_display = delivered[Len(delivered)].text

\* C29: the text an action would submit is the captured text shown in the
\* input area, and it is empty when the placeholder is shown: once a capture
\* has ended with the placeholder in the input area, no text of an earlier
\* capture is left in selected_text.
C29_PlaceholderMeansNoText ==
    (hk_pc = "idle" /\ CallbacksQuiet /\ selected_text_display = Placeholder)
       => selected_text = <<>>

(***************************************************************************)
(* Properties of copy_to_clipboard with the monitor running (SpecClip)     *)
(***************************************************************************)
\* C30: a click on Copy to Clipboard changes only the clipboard: the steps of
\* copy_to_clipboard leave the captured text, the input area and the result
\* area as they are, and so does the running monitor when it finds the copied
\* text on the clipboard: the captured text and the input area stay
\* unchanged and the result area stays visible.
C30_CopyChangesOnlyClipboard ==
    [][/\ copy_pc' # copy_pc =>
            UNCHANGED <<selected_text, selected_text_display, result_frame,
                        result_display, visible>>
       /\ (/\ copy_text # <<>> /\ clipboard = copy_text
           /\ cb_pc["mon"] \in InCallback /\ cb_pc'["mon"] # cb_pc["mon"]
           /\ strip(cb_text["mon"]) = copy_text)
             => UNCHANGED <<selected_text, selected_text_display, result_frame>>]_vars

====
